---- MODULE Spec2Model ----
(***************************************************************************)
(* Model of the text chat streaming path of the coach server:              *)
(*   app/api/sse.py           text_sse_handler.event_generator,            *)
(*                            _enqueue_chat_messages                       *)
(*   app/utils/api_utils.py   send_ping_pong_messages, process_messages    *)
(*   app/llm/llm.py           LlmClient.llm_text_response,                 *)
(*                            _handle_function_call, _create_yield_response *)
(*   app/llm/tools/llm_tools.py  Tools (registry and handlers)             *)
(*                                                                         *)
(* The asyncio tasks of one SSE connection are the processes; a step of a  *)
(* task is the code between two suspension points (await of the model      *)
(* stream, of a tool handler, of save_chat_message, of sleep, of           *)
(* queue.get).  A put on the unbounded asyncio.Queue never suspends.       *)
(***************************************************************************)
EXTENDS Integers, Sequences, FiniteSets, TLC

\* ------------------------------------------------------------------ bounds
\* generation passes (model calls) started over one connection
MaxCalls == 2
\* stream chunks consumed over one connection
MaxFrags == 3
\* heartbeats put by send_ping_pong_messages
MaxPings == 2
\* generation passes, chunks and heartbeats together, when the whole
\* connection (transport and keepalive included) is explored
MaxWork == 5

\* ------------------------------------------------------- texts and tokens
\* Text is a sequence of tokens.  The k-th text delta of a generation pass
\* carries the k-th token of the recorded text (the last one from then on).
DELTAS == <<"Hello", " there", " friend", "!">>

Delta(k) == IF k <= Len(DELTAS) THEN DELTAS[k] ELSE DELTAS[Len(DELTAS)]

\* Tokens of a tool call's argument text:
\*   "{" "}"  braces            "q"  a double quote
\*   "a"      a character that is not a quote
\*   "Y"      the text  "your_response":   (key, colon, optional blanks)
\*   "P"      a complete other pair, e.g.  "search_word":"excel",
\*   "C"      the complete pair  "callback":false,
NonQuote == {"{", "}", "a"}
QuoteStart == {"q", "Y", "P", "C"}

\* The argument texts the model stream may deliver (whole or cut short).
ArgTexts ==
  { <<"{", "Y", "q", "a", "q", "}">>,
    <<"{", "P", "}">>,
    <<"{", "C", "Y", "q", "a", "q", "}">>,
    <<"{", "Y", "q", "a">> }

IsPrefix(s, t) == Len(s) <= Len(t) /\ SubSeq(t, 1, Len(s)) = s

\* Fixed answers of the error paths.
ERROR_TEXT == <<"Error Occurred">>
ERROR_TEXT_SSE == <<"Error Occurred, Please try again later.">>
APOLOGY_TEXT == <<"I'm sorry, your query hab been filtered by azure content policy. Please try again.">>
\* The "message" entry of a content-filter error body, when it has one.
BODY_MESSAGE == <<"The response was filtered due to the prompt triggering content management policy.">>

\* ------------------------------------------------------- the response value
\* `response` of llm_text_response is a str, or (after the your_response scan
\* matched) the list re.findall returned.
Str(s) == [isList |-> FALSE, str |-> s, list |-> <<>>]
List(l) == [isList |-> TRUE, str |-> <<>>, list |-> l]

\* bool(response)
Truthy(r) == IF r.isList THEN r.list # <<>> ELSE r.str # <<>>

\* response += delta.content : str concatenation, or list.extend over the
\* characters of the delta
AddContent(r, tok) ==
  IF r.isList THEN List(Append(r.list, <<tok>>)) ELSE Str(Append(r.str, tok))

\* response if isinstance(response, str) else response[0]
FirstOrStr(r) == IF r.isList THEN Str(r.list[1]) ELSE r

\* re.findall(r'"your_response":\s*"([^"]+)"', func_arguments): the groups of
\* the non-overlapping matches, left to right.
RECURSIVE RunEnd(_, _)
RunEnd(s, j) ==
  IF j <= Len(s) /\ s[j] \in NonQuote THEN RunEnd(s, j + 1) ELSE j

RECURSIVE FindAllFrom(_, _)
FindAllFrom(s, i) ==
  IF i + 1 > Len(s) THEN <<>>
  ELSE IF s[i] = "Y" /\ s[i + 1] = "q"
       THEN LET e == RunEnd(s, i + 2)
            IN  IF e > i + 2 /\ e <= Len(s) /\ s[e] \in QuoteStart
                THEN <<SubSeq(s, i + 2, e - 1)>> \o FindAllFrom(s, e + 1)
                ELSE FindAllFrom(s, i + 1)
       ELSE FindAllFrom(s, i + 1)

FindAll(s) == FindAllFrom(s, 1)

\* json.loads(func_arguments) succeeds: an object of complete pairs.
RECURSIVE PairsOk(_, _)
PairsOk(s, i) ==
  IF i > Len(s) THEN FALSE
  ELSE IF s[i] = "}" THEN i = Len(s)
  ELSE IF s[i] \in {"P", "C"} THEN PairsOk(s, i + 1)
  ELSE IF s[i] = "Y" /\ i + 1 <= Len(s) /\ s[i + 1] = "q"
       THEN LET e == RunEnd(s, i + 2)
            IN  e <= Len(s) /\ s[e] = "q" /\ PairsOk(s, e + 1)
  ELSE FALSE

JsonValid(s) == Len(s) >= 2 /\ s[1] = "{" /\ PairsOk(s, 2)

\* {k: v for k, v in json.loads(func_arguments).items() if k != "your_response"}
\* as the set of the remaining pairs
ParsedArguments(s) == { s[i] : i \in { j \in 1..Len(s) : s[j] \in {"P", "C"} } }

\* ------------------------------------------------------- the tool registry
\* Tools.functions
functions ==
  [ Action_items  |-> [function |-> "action_items",  is_sync |-> TRUE],
    Find_content  |-> [function |-> "find_content",  is_sync |-> TRUE],
    Role_To_Skill |-> [function |-> "role_to_skill", is_sync |-> TRUE],
    Prepare_Plan  |-> [function |-> "prepare_plan",  is_sync |-> FALSE] ]

\* Tool names a tool-call-start fragment may carry.
ToolNames == DOMAIN functions \cup {"Unknown_tool"}

\* The async_tools argument: _enqueue_chat_messages and the re-entry both
\* leave it at its default.
async_tools == FALSE


\* ------------------------------------------------------------------- state
VARIABLES
  queue,           \* asyncio.Queue of event_generator: items not yet taken
  emitted,         \* every item put on the queue so far, in put order
  forwarded,       \* items event_generator has yielded to the SSE response
  stop_event,      \* asyncio.Event of event_generator
  tpc,             \* position of event_generator
  ppc,             \* position of send_ping_pong_messages
  npings,          \* heartbeats put so far
  disconnected,    \* what request.is_disconnected() reports
  pingsAtDisconnect, \* heartbeats put when the client went away (-1: it has not)
  cpc,             \* position of _enqueue_chat_messages / llm_text_response
  ncalls,          \* generation passes started on this connection
  turn,            \* llm_text_response calls made by _enqueue_chat_messages
  pass,            \* generation pass inside the current turn (1 = outermost)
  nfrag,           \* chunks consumed so far on this connection (where g.rec: in this turn)
  func_call,       \* llm_text_response local
  func_arguments,  \* llm_text_response local
  response,        \* llm_text_response local
  chat,            \* conversation history kept by RedisManager.store_chat
  detached,        \* handler tasks started with asyncio.create_task
  g                \* record of what happened in the current turn and pass

chanVars == <<queue, emitted>>
transVars == <<forwarded, stop_event, tpc>>
pingVars == <<ppc, npings>>
localVars == <<func_call, func_arguments, response>>
orchVars == <<cpc, ncalls, turn, pass, nfrag, func_call, func_arguments, response, chat, g>>
vars == <<queue, emitted, forwarded, stop_event, tpc, ppc, npings, disconnected,
          pingsAtDisconnect,
          cpc, ncalls, turn, pass, nfrag, func_call, func_arguments, response,
          chat, detached, g>>

\* func_call = {}
NoCall == [open |-> FALSE, func_name |-> ""]

NoReturn == [set |-> FALSE, content |-> <<>>, callback |-> FALSE]

\* per-pass part of g
PassGhost(old) ==
  [old EXCEPT !.starts = <<>>, !.textbuf = <<>>, !.dispatched = <<>>,
              !.argfrags = 0, !.prompt = <<>>]

\* g at the start of a turn
TurnGhost ==
  [cause |-> "none", starts |-> <<>>, textbuf |-> <<>>, dispatched |-> <<>>,
   argfrags |-> 0,
   calls |-> 0, callsAtRaise |-> 0, toolRet |-> NoReturn,
   rec |-> FALSE, fed |-> <<>>, fedPrev |-> <<>>,
   cut |-> FALSE, prompt |-> <<>>]

\* g.fed: what the run was fed so far, in order (stream chunks, an exception
\* of the model call, the handler's outcome, the outcome of the save);
\* g.fedPrev: the same of the turn before.  Both are kept only where g.rec
\* is set, which the specification comparing two runs does.
FedItem(k, name, text, data) == [k |-> k, name |-> name, text |-> text, data |-> data]
Fed(gg, item) == IF gg.rec THEN [gg EXCEPT !.fed = Append(@, item)] ELSE gg
\* the recorded stream(s) and tool result of a run
StreamAndTool(fed) == SelectSeq(fed, LAMBDA x : x.k # "save")

\* ------------------------------------------------------------- queue items
\* the "ping-pong" string of send_ping_pong_messages
PING ==
  [kind |-> "ping", producer |-> "keepalive", turn |-> 0, pass |-> 0,
   status |-> "", is_final |-> FALSE, answer |-> Str(<<>>),
   message_id |-> "None", src |-> "ping"]

\* mutant: every Event is marked final
CreateYieldResponseAllFinal(resp, status) ==
  [kind |-> "event", producer |-> "orch", turn |-> 0, pass |-> 0,
   status |-> status, is_final |-> TRUE, answer |-> resp,
   message_id |-> "None", src |-> ""]

\* LlmClient._create_yield_response with message_id at its default (coach_id,
\* user_id and time_stamp are left out)
CreateYieldResponse(resp, status) ==
  [kind |-> "event", producer |-> "orch", turn |-> 0, pass |-> 0,
   status |-> status, is_final |-> (status = "done"), answer |-> resp,
   message_id |-> "None", src |-> ""]

\* The Event as _enqueue_chat_messages puts it, labelled with the turn and
\* pass that yielded it and the yield statement it came from.
Yield(resp, status, src) ==
  [CreateYieldResponse(resp, status) EXCEPT !.turn = turn, !.pass = pass, !.src = src]

\* return_data of Tools.action_items / Tools.find_content
ReturnData(callback) ==
  [kind |-> "event", producer |-> "tool", turn |-> turn, pass |-> pass,
   status |-> IF ~callback THEN "done" ELSE "in-progress",
   is_final |-> IF ~callback THEN TRUE ELSE FALSE,
   answer |-> Str(<<>>), message_id |-> "None", src |-> "data"]

\* error_response of event_generator's except clause
ErrorResponse ==
  [kind |-> "event", producer |-> "generator", turn |-> 0, pass |-> 0,
   status |-> "done", is_final |-> TRUE, answer |-> Str(ERROR_TEXT_SSE),
   message_id |-> "None", src |-> "init"]

\* queue.put of each item of `items`, in order
Put(items) ==
  /\ queue' = queue \o items
  /\ emitted' = emitted \o items

Init ==
  /\ queue = <<>> /\ emitted = <<>> /\ forwarded = <<>>
  /\ stop_event = FALSE
  /\ tpc = "init"
  /\ ppc = "sleeping" /\ npings = 0
  /\ disconnected = FALSE /\ pingsAtDisconnect = -1
  /\ cpc = "none"
  /\ ncalls = 0 /\ turn = 0 /\ pass = 0 /\ nfrag = 0
  /\ func_call = NoCall /\ func_arguments = <<>> /\ response = Str(<<>>)
  /\ chat = <<>>
  /\ detached = {}
  /\ g = TurnGhost


\* ------------------------------------------------- conversation history
\* RedisManager.store_chat appends the messages to the stored list.
Message(role, content, name) == [role |-> role, content |-> content, name |-> name]

\* mutant: the message is put in front of the stored ones
StoreChatInFront(history, msg) == <<msg>> \o history

\* RedisManager.store_chat: the stored list extended by the message
StoreChat(history, msg) == Append(history, msg)

\* the conversation part of PromptPreprocessor.prepare_prompt: role and
\* content of every stored message, the name too for the function role
PreparePrompt(history) ==
  [i \in 1..Len(history) |->
     IF history[i].role = "function"
     THEN Message(history[i].role, history[i].content, history[i].name)
     ELSE Message(history[i].role, history[i].content, "")]

\* input_dict["prompt"] of the chat request
USER_QUERY == <<"prompt">>

\* ----------------------------------------------------------- tool handlers
\* ACTION_ITEM_DATA_PATH, RECOMMENDATION_DATA_PATH, PLAN_DATA_JSON and
\* USER_DATA_PATH are used by the handlers but no module defines or imports
\* them: opening the data file raises NameError.
DataPathsDefined == FALSE

Returns(content, data) == [raises |-> FALSE, content |-> content, data |-> data]
Raises(data) == [raises |-> TRUE, content |-> <<>>, data |-> data]

\* mutant: the data files open, so the handlers get as far as their put
HandlerOutcomesWithData(name) ==
  CASE name = "Action_items" ->
         {Raises(FALSE), Returns(<<"Action Item Successfully Assigned">>, TRUE)}
    [] name = "Find_content" ->
         {Raises(FALSE), Returns(<<"Error fetching data">>, FALSE),
          Returns(<<>>, TRUE), Raises(TRUE)}
    [] name = "Role_To_Skill" ->
         {Raises(FALSE), Returns(<<"Here are complete details of the skills">>, FALSE)}
    [] OTHER -> {Raises(FALSE)}

\* What awaiting the handler of `name` can do: raise, or return `content`;
\* `data` tells whether it has put its return_data Event on the queue before.
HandlerOutcomes(name) ==
  CASE name = "Action_items" ->
         IF DataPathsDefined
         THEN {Raises(FALSE), Returns(<<"Action Item Successfully Assigned">>, TRUE)}
         ELSE {Raises(FALSE)}
    [] name = "Find_content" ->
         IF DataPathsDefined
         THEN {Raises(FALSE), Returns(<<"Error fetching data">>, FALSE),
               Returns(<<>>, TRUE), Raises(TRUE)}
         ELSE {Raises(FALSE)}
    [] name = "Role_To_Skill" ->
         {Raises(FALSE), Returns(<<"Here are complete details of the skills">>, FALSE)}
    [] OTHER -> {Raises(FALSE)}

\* mutant: the handler always runs with the default
CallbackDefault(fargs) == TRUE

\* The callback parameter the handler runs with: its default True unless the
\* parsed arguments carry a "callback" entry (passed on as a keyword).
Callback(fargs) == "C" \notin ParsedArguments(fargs)

\* ------------------------------------------------------------ orchestrator
\* mutant: a later tool-call-start is skipped and the loop goes on
OnToolCallIdSkipping(fc, name) ==
  [brk |-> FALSE, fc |-> IF fc.open THEN fc ELSE [open |-> TRUE, func_name |-> name]]

\* mutant: a later tool-call-start replaces the open call
OnToolCallIdReplacing(fc, name) ==
  [brk |-> FALSE, fc |-> [open |-> TRUE, func_name |-> name]]

\* the tool-call-start branch of the chunk loop: break when a call is open,
\* else open the call
OnToolCallId(fc, name) ==
  [brk |-> fc.open,
   fc  |-> IF fc.open THEN fc ELSE [open |-> TRUE, func_name |-> name]]

\* mutant: the scan looks at the new fragment only
OnArgumentsPerFragment(resp, fargs, piece) ==
  [fargs |-> fargs \o piece,
   resp  |-> IF FindAll(piece) # <<>> THEN List(FindAll(piece)) ELSE resp]

\* the argument branch of the chunk loop: the fragment is appended to
\* func_arguments and the whole of it is scanned for your_response
OnArguments(resp, fargs, piece) ==
  LET acc == fargs \o piece
  IN  [fargs |-> acc,
       resp  |-> IF FindAll(acc) # <<>> THEN List(FindAll(acc)) ELSE resp]

\* mutant: every registered handler is awaited
DispatchModeAwaiting(name, fargs) ==
  IF name \notin DOMAIN functions THEN "raise"
  ELSE IF ~JsonValid(fargs) THEN "raise"
  ELSE "sync"

\* _handle_function_call up to the dispatch: "raise" when the registry lookup
\* or json.loads raises, else the execution mode
DispatchMode(name, fargs) ==
  IF name \notin DOMAIN functions THEN "raise"
  ELSE IF ~JsonValid(fargs) THEN "raise"
  ELSE IF async_tools \/ ~functions[name].is_sync THEN "async"
  ELSE "sync"

\* mutant: the generic except clause yields nothing
ExceptionEventsSilent(exc) ==
  CASE exc = "filter_msg"   -> <<Yield(Str(BODY_MESSAGE), "done", "filter")>>
    [] exc = "filter_nomsg" -> <<Yield(Str(APOLOGY_TEXT), "done", "filter")>>
    [] OTHER                -> <<>>

\* mutant: the content-filter clause always yields the fixed apology
ExceptionEventsFixedApology(exc) ==
  CASE exc \in {"filter_msg", "filter_nomsg"} ->
         <<Yield(Str(APOLOGY_TEXT), "done", "filter")>>
    [] exc = "bad_request"  -> <<>>
    [] OTHER                -> <<Yield(Str(ERROR_TEXT), "done", "error")>>

\* the Events the except clauses of llm_text_response yield
ExceptionEvents(exc) ==
  CASE exc = "filter_msg"   -> <<Yield(Str(BODY_MESSAGE), "done", "filter")>>
    [] exc = "filter_nomsg" -> <<Yield(Str(APOLOGY_TEXT), "done", "filter")>>
    [] exc = "bad_request"  -> <<>>
    [] OTHER                -> <<Yield(Str(ERROR_TEXT), "done", "error")>>

\* exceptions the model call or its stream can raise:
\*   BadRequestError with code content_filter, with / without a body message
\*   BadRequestError with another code; any other exception
ModelExceptions == {"filter_msg", "filter_nomsg", "bad_request", "other"}

\* mutant: the callback flag is ignored and the turn ends after the handler
ContinuesNever(callback) == FALSE

\* if callback: re-enter llm_text_response
Continues(callback) == callback

\* mutant: the handler's content is the answer, the response the fallback
NoCallbackAnswerContent(resp, content) ==
  IF content # <<>> THEN Str(content) ELSE resp

\* the answer of the final Event after a handler returned without callback
NoCallbackAnswer(resp, content) == resp

\* the answer of the final Event of the fire-and-forget branch
AsyncAnswer(resp) == resp

\* mutant: the buffer of the run before is kept
InitialResponseKept(old) == old

\* response = "" before the chunk loop
InitialResponse(old) == Str(<<>>)

\* entry into llm_text_response (turn t, pass p)
StartPass(t, p, chat1, g1) ==
  /\ cpc' = "create"
  /\ ncalls' = ncalls + 1
  /\ turn' = t /\ pass' = p
  /\ func_call' = NoCall /\ func_arguments' = <<>>
  /\ response' = InitialResponse(response)
  /\ chat' = chat1
  /\ g' = g1

\* mutant: the loop goes on whatever is_disconnected reports
LoopBreaksNever(disc) == FALSE

\* if await request.is_disconnected(): break
LoopBreaks(disc) == disc

\* _enqueue_chat_messages: one round of the while loop up to the call of
\* llm_text_response, which stores the user query
ChatLoop ==
  /\ cpc \in {"start", "sleep"}
  /\ IF LoopBreaks(disconnected)
     THEN /\ cpc' = "exited"
          /\ UNCHANGED <<ncalls, turn, pass, localVars, chat, g>>
     ELSE /\ ncalls < MaxCalls
          /\ StartPass(turn + 1, 1, StoreChat(chat, Message("user", USER_QUERY, "")),
                       [TurnGhost EXCEPT !.rec = g.rec, !.fedPrev = g.fed])
  /\ nfrag' = IF g.rec /\ ~disconnected THEN 0 ELSE nfrag
  /\ UNCHANGED <<chanVars, transVars, pingVars, disconnected, pingsAtDisconnect, detached>>

\* prepare_prompt and chat.completions.create return (g.prompt: the
\* conversation messages of the prompt)
CreateStream ==
  /\ cpc = "create"
  /\ cpc' = "stream"
  /\ g' = [g EXCEPT !.prompt = PreparePrompt(chat)]
  /\ UNCHANGED <<chanVars, transVars, pingVars, disconnected, pingsAtDisconnect, detached,
                 ncalls, turn, pass, nfrag, localVars, chat>>

\* the model call or the stream raises
ModelRaises(exc) ==
  /\ cpc \in {"create", "stream"}
  /\ Put(ExceptionEvents(exc))
  /\ cpc' = "sleep"
  /\ g' = Fed([g EXCEPT !.cause = exc], FedItem("raise", exc, <<>>, FALSE))
  /\ UNCHANGED <<transVars, pingVars, disconnected, pingsAtDisconnect, detached,
                 ncalls, turn, pass, nfrag, localVars, chat>>

\* lines 542-553 and _handle_function_call up to the next await
EndOfStream(fc, fargs, resp, g1) ==
  LET r == IF Truthy(resp) THEN FirstOrStr(resp) ELSE resp
      chat1 == IF Truthy(resp)
               THEN StoreChat(chat, Message("assistant", r.str, ""))
               ELSE chat
      name == fc.func_name
      mode == DispatchMode(name, fargs)
      g2 == [g1 EXCEPT !.dispatched = Append(@, name), !.calls = @ + 1]
  IN  /\ func_call' = fc /\ func_arguments' = fargs /\ response' = r
      /\ chat' = chat1
      /\ IF ~fc.open
         THEN /\ cpc' = "save" /\ Put(<<>>) /\ g' = g1
              /\ UNCHANGED detached
         ELSE CASE mode = "raise" ->
                     /\ cpc' = "sleep"
                     /\ Put(ExceptionEvents("other"))
                     /\ g' = [g1 EXCEPT !.cause =
                                IF name \notin DOMAIN functions
                                THEN "unknown_tool" ELSE "bad_json"]
                     /\ UNCHANGED detached
                [] mode = "async" ->
                     /\ cpc' = "sleep"
                     /\ Put(<<Yield(AsyncAnswer(r), "done", "async")>>)
                     /\ detached' = detached \cup
                          {[turn |-> turn, func_name |-> name, st |-> "running"]}
                     /\ g' = g2
                [] OTHER ->
                     /\ cpc' = "tool" /\ Put(<<>>) /\ g' = g2
                     /\ UNCHANGED detached

\* a chunk with no choices
ChunkEmpty ==
  /\ cpc = "stream" /\ nfrag < MaxFrags
  /\ nfrag' = nfrag + 1
  /\ UNCHANGED <<chanVars, transVars, pingVars, disconnected, pingsAtDisconnect, detached,
                 cpc, ncalls, turn, pass, func_call, func_arguments, response,
                 chat>>
  /\ g' = Fed(g, FedItem("empty", "", <<>>, FALSE))

\* a chunk whose delta.tool_calls[0] carries an id
ChunkToolStart(name) ==
  /\ cpc = "stream" /\ nfrag < MaxFrags
  /\ nfrag' = nfrag + 1
  /\ LET on == OnToolCallId(func_call, name)
         g1 == Fed([g EXCEPT !.starts = Append(@, name)],
                   FedItem("start", name, <<>>, FALSE))
     IN  IF on.brk
         THEN EndOfStream(on.fc, func_arguments, response, g1)
         ELSE /\ func_call' = on.fc
              /\ g' = g1
              /\ UNCHANGED <<chanVars, detached, cpc, func_arguments, response, chat>>
  /\ UNCHANGED <<transVars, pingVars, disconnected, pingsAtDisconnect, ncalls, turn, pass>>

\* a chunk whose delta.tool_calls[0] carries no id: an argument fragment
ChunkToolArguments(piece) ==
  /\ cpc = "stream" /\ nfrag < MaxFrags
  /\ piece # <<>>
  /\ \E text \in ArgTexts : IsPrefix(func_arguments \o piece, text)
  /\ nfrag' = nfrag + 1
  /\ func_arguments' = OnArguments(response, func_arguments, piece).fargs
  /\ response' = OnArguments(response, func_arguments, piece).resp
  /\ g' = Fed([g EXCEPT !.argfrags = @ + 1], FedItem("args", "", piece, FALSE))
  /\ UNCHANGED <<chanVars, transVars, pingVars, disconnected, pingsAtDisconnect, detached,
                 cpc, ncalls, turn, pass, func_call, chat>>

\* a chunk with delta.content
ChunkContent ==
  /\ cpc = "stream" /\ nfrag < MaxFrags
  /\ nfrag' = nfrag + 1
  /\ LET tok == Delta(Len(g.textbuf) + 1)
     IN  /\ response' = AddContent(response, tok)
         /\ Put(<<Yield(AddContent(response, tok), "in-progress", "delta")>>)
         /\ g' = Fed([g EXCEPT !.textbuf = Append(@, tok)],
                     FedItem("content", "", <<tok>>, FALSE))
  /\ UNCHANGED <<transVars, pingVars, disconnected, pingsAtDisconnect, detached,
                 cpc, ncalls, turn, pass, func_call, func_arguments, chat>>

\* the stream is exhausted
StreamEnd ==
  /\ cpc = "stream"
  /\ EndOfStream(func_call, func_arguments, response, g)
  /\ UNCHANGED <<transVars, pingVars, disconnected, pingsAtDisconnect, ncalls, turn, pass, nfrag>>

\* what awaiting save_chat_message can do: raise (no client session, or the
\* POST failed three times), or return the messageId the service answered
MessageIds == {"m1", "m2"}
SaveOutcomes ==
  {[ok |-> FALSE, id |-> "None"]} \cup {[ok |-> TRUE, id |-> i] : i \in MessageIds}

\* mutant: the write is not waited for; the answer goes out whatever it does
TextFinalUnawaited(resp, o) == <<Yield(resp, "done", "text")>>

\* the Events of the pure-text branch once save_chat_message is through: the
\* final Event with the message id, or what the except clause yields
TextFinal(resp, o) ==
  IF o.ok
  THEN <<[Yield(resp, "done", "text") EXCEPT !.message_id = o.id]>>
  ELSE ExceptionEvents("other")

\* await save_chat_message(...) of the pure-text branch, then the final yield
SaveChatMessage(o) ==
  /\ cpc = "save"
  /\ cpc' = "sleep"
  /\ Put(TextFinal(response, o))
  /\ g' = Fed(IF o.ok THEN g ELSE [g EXCEPT !.cause = "save_failed"],
              FedItem("save", IF o.ok THEN "ok" ELSE "failed", <<>>, FALSE))
  /\ UNCHANGED <<transVars, pingVars, disconnected, pingsAtDisconnect, detached,
                 ncalls, turn, pass, nfrag, localVars, chat>>

\* the awaited handler returns (content, callback)
ToolReturns(o) ==
  /\ cpc = "tool"
  /\ o \in HandlerOutcomes(func_call.func_name) /\ ~o.raises
  /\ LET callback == Callback(func_arguments)
         data == IF o.data THEN <<ReturnData(callback)>> ELSE <<>>
         chat1 == StoreChat(chat, Message("function", o.content, func_call.func_name))
         g1 == Fed([g EXCEPT !.toolRet =
                      [set |-> TRUE, content |-> o.content, callback |-> callback]],
                   FedItem("tool", "returns", o.content, o.data))
     IN  IF Continues(callback)
         THEN /\ ncalls < MaxCalls
              /\ Put(data)
              /\ StartPass(turn, pass + 1, chat1, PassGhost(g1))
         ELSE /\ Put(data \o
                     <<Yield(NoCallbackAnswer(response, o.content), "done", "sync")>>)
              /\ cpc' = "sleep" /\ chat' = chat1 /\ g' = g1
              /\ UNCHANGED <<ncalls, turn, pass, localVars>>
  /\ UNCHANGED <<transVars, pingVars, disconnected, pingsAtDisconnect, detached, nfrag>>

\* the awaited handler raises
ToolRaises(o) ==
  /\ cpc = "tool"
  /\ o \in HandlerOutcomes(func_call.func_name) /\ o.raises
  /\ Put((IF o.data THEN <<ReturnData(Callback(func_arguments))>> ELSE <<>>)
         \o ExceptionEvents("other"))
  /\ cpc' = "sleep"
  /\ g' = Fed([g EXCEPT !.cause = "tool_raised", !.callsAtRaise = g.calls],
              FedItem("tool", "raises", <<>>, o.data))
  /\ UNCHANGED <<transVars, pingVars, disconnected, pingsAtDisconnect, detached,
                 ncalls, turn, pass, nfrag, localVars, chat>>

\* a handler started with asyncio.create_task runs: prepare_plan raises (in
\* plan_duplicate_checker, or at the latest in its store_chat call, whose
\* keywords store_chat does not accept); the task's exception is never read
DetachedRuns(d) ==
  /\ d \in detached /\ d.st = "running"
  /\ detached' = (detached \ {d}) \cup {[d EXCEPT !.st = "failed"]}
  /\ UNCHANGED <<chanVars, transVars, pingVars, disconnected, pingsAtDisconnect, orchVars>>

\* -------------------------------------------------------------- keepalive
\* mutant: the emitter does not look at the stop signal before its put
PutsHeartbeatUnchecked(stop) == TRUE

\* if not stop_event.is_set(): the test between the sleep and the put
PutsHeartbeat(stop) == ~stop

\* send_ping_pong_messages wakes from asyncio.sleep(5): the put when the stop
\* signal is not set, then the test of the while loop
PingWake ==
  /\ ppc = "sleeping"
  /\ IF PutsHeartbeat(stop_event)
     THEN /\ npings < MaxPings
          /\ Put(<<PING>>)
          /\ npings' = npings + 1
     ELSE UNCHANGED <<chanVars, npings>>
  /\ ppc' = IF ~stop_event THEN "sleeping" ELSE "done"
  /\ UNCHANGED <<transVars, disconnected, pingsAtDisconnect, detached, orchVars>>

\* -------------------------------------------------------------- transport
\* mutant: the newest item is taken first
GetNewest(q) == [item |-> q[Len(q)], rest |-> SubSeq(q, 1, Len(q) - 1)]

\* await queue.get() of process_messages: asyncio.Queue hands out the oldest
\* item
Get(q) == [item |-> Head(q), rest |-> Tail(q)]

\* "ping-pong" in message
IsPingPong(m) == m.kind = "ping"

\* mutant: any item ends the loop of event_generator
IsContinueNever(message) == FALSE

\* is_continue of event_generator: cleared by an item that is not the
\* heartbeat and has is_final set
IsContinue(message) == IsPingPong(message) \/ ~message.is_final

\* event_generator: LlmClient(...) and initialize() succeed (event "chat")
GeneratorStarts ==
  /\ tpc = "init"
  /\ tpc' = "wait"
  /\ cpc' = "start"
  /\ UNCHANGED <<chanVars, forwarded, stop_event, pingVars, disconnected, pingsAtDisconnect, detached,
                 ncalls, turn, pass, nfrag, localVars, chat, g>>

\* event_generator: LlmClient(...) or initialize() raises.  The except clause
\* reads session_data.get("time_zone") and session_data["correlation_id"],
\* keys the session data does not have, so it raises before the put.
GeneratorFails ==
  /\ tpc = "init"
  /\ tpc' = "crashed"
  /\ disconnected' = TRUE
  /\ UNCHANGED pingsAtDisconnect
  /\ UNCHANGED <<chanVars, forwarded, stop_event, pingVars, detached, orchVars>>

\* process_messages yields the next item and event_generator yields it on
\* (a queue item stands for its decoded content: json.loads gives the dict
\* of an Event and fails on the "ping-pong" string, which is kept as it is);
\* after an item that is not final it is resumed and awaits the next one
TransportForwards ==
  /\ tpc = "wait" /\ queue # <<>>
  /\ LET message == Get(queue).item
     IN  /\ forwarded' = Append(forwarded, message)
         /\ tpc' = IF IsContinue(message) THEN "wait" ELSE "last"
  /\ queue' = Get(queue).rest
  /\ UNCHANGED <<emitted, stop_event, pingVars, disconnected, pingsAtDisconnect, detached, orchVars>>

\* event_generator is resumed after yielding a final Event: stop_event.set()
\* and break; the response completes
TransportCloses ==
  /\ tpc = "last"
  /\ stop_event' = TRUE /\ tpc' = "closed" /\ disconnected' = TRUE
  /\ UNCHANGED pingsAtDisconnect
  /\ UNCHANGED <<chanVars, forwarded, pingVars, detached, orchVars>>

\* llm_text_response has been called for a turn and has not finished
InFlight == cpc \in {"create", "stream", "save", "tool"}

\* the client goes away: the response cancels event_generator (g.cut, kept
\* where g.rec is set: it did while a turn was in flight)
ClientDisconnects ==
  /\ tpc \in {"init", "wait", "last"}
  /\ tpc' = "cancelled"
  /\ disconnected' = TRUE
  /\ pingsAtDisconnect' = npings
  /\ g' = [g EXCEPT !.cut = g.rec /\ InFlight]
  /\ UNCHANGED <<chanVars, forwarded, stop_event, pingVars, detached,
                 cpc, ncalls, turn, pass, nfrag, localVars, chat>>

\* the fragments of the argument texts
Pieces ==
  UNION { { SubSeq(text, i, j) : i \in 1..Len(text), j \in 1..Len(text) } \ {<<>>}
          : text \in ArgTexts }

\* One SSE connection: transport, keepalive, chat task, detached handlers.
\* The stream delivers an argument text in one fragment.
Work == ncalls + nfrag + npings

Next ==
  \/ GeneratorStarts
  \/ GeneratorFails
  \/ TransportForwards
  \/ TransportCloses
  \/ ClientDisconnects
  \/ Work < MaxWork /\ PingWake
  \/ stop_event /\ PingWake
  \/ Work < MaxWork /\ ChatLoop
  \/ disconnected /\ ChatLoop
  \/ CreateStream
  \/ \E exc \in ModelExceptions : ModelRaises(exc)
  \/ \E name \in ToolNames : Work < MaxWork /\ ChunkToolStart(name)
  \/ \E text \in ArgTexts : Work < MaxWork /\ ChunkToolArguments(text)
  \/ Work < MaxWork /\ ChunkContent
  \/ StreamEnd
  \/ \E o \in SaveOutcomes : SaveChatMessage(o)
  \/ \E o \in HandlerOutcomes(func_call.func_name) :
        (Work < MaxWork \/ ~Callback(func_arguments)) /\ ToolReturns(o)
  \/ \E o \in HandlerOutcomes(func_call.func_name) : ToolRaises(o)
  \/ \E d \in detached : DetachedRuns(d)

Spec == Init /\ [][Next]_vars

\* The chat task and its handlers alone (nothing consumes the queue), from the
\* state in which event_generator has created the chat task; the stream
\* delivers the argument texts in any fragments.
InitTurn ==
  /\ queue = <<>> /\ emitted = <<>> /\ forwarded = <<>>
  /\ stop_event = FALSE
  /\ tpc = "wait"
  /\ ppc = "sleeping" /\ npings = 0
  /\ disconnected = FALSE /\ pingsAtDisconnect = -1
  /\ cpc = "start"
  /\ ncalls = 0 /\ turn = 0 /\ pass = 0 /\ nfrag = 0
  /\ func_call = NoCall /\ func_arguments = <<>> /\ response = Str(<<>>)
  /\ chat = <<>>
  /\ detached = {}
  /\ g = TurnGhost

NextTurn ==
  \/ ClientDisconnects
  \/ ChatLoop
  \/ CreateStream
  \/ \E exc \in ModelExceptions : ModelRaises(exc)
  \/ ChunkEmpty
  \/ \E name \in ToolNames : ChunkToolStart(name)
  \/ \E piece \in Pieces : ChunkToolArguments(piece)
  \/ ChunkContent
  \/ StreamEnd
  \/ \E o \in SaveOutcomes : SaveChatMessage(o)
  \/ \E o \in HandlerOutcomes(func_call.func_name) : ToolReturns(o)
  \/ \E o \in HandlerOutcomes(func_call.func_name) : ToolRaises(o)
  \/ \E d \in detached : DetachedRuns(d)

SpecTurn == InitTurn /\ [][NextTurn]_vars

\* ------------------------------------------------ the "connect" turn
\* an Event of llm_text_begin_message as _enqueue_begin_messages puts it
BeginYield(resp, status) == [CreateYieldResponse(resp, status) EXCEPT !.src = "begin"]

\* What the except clauses of llm_text_begin_message do with an exception
\* raised before message_id and end_time_stamp are assigned (lines 452 and
\* 455): the BadRequestError clause yields nothing for a code other than
\* content_filter; for content_filter, and in the clause for any other
\* exception, the arguments of the yield read the two unassigned locals, so
\* UnboundLocalError leaves the generator.
BeginExceptionOutcome(exc) ==
  IF exc = "bad_request"
  THEN [events |-> <<>>, escapes |-> FALSE]
  ELSE [events |-> <<>>, escapes |-> TRUE]

\* prepare_prompt and chat.completions.create return
BeginCreateStream ==
  /\ cpc = "bcreate"
  /\ cpc' = "bstream"
  /\ UNCHANGED <<chanVars, transVars, pingVars, disconnected, pingsAtDisconnect, detached,
                 ncalls, turn, pass, nfrag, localVars, chat, g>>

\* the model call or the stream raises
BeginRaises(exc) ==
  /\ cpc \in {"bcreate", "bstream"}
  /\ Put(BeginExceptionOutcome(exc).events)
  /\ cpc' = IF BeginExceptionOutcome(exc).escapes THEN "bcrashed" ELSE "bdone"
  /\ g' = [g EXCEPT !.cause = exc]
  /\ UNCHANGED <<transVars, pingVars, disconnected, pingsAtDisconnect, detached,
                 ncalls, turn, pass, nfrag, localVars, chat>>

\* a chunk with no choices: chunk.choices[0] raises IndexError
BeginChunkNoChoices ==
  /\ cpc = "bstream" /\ nfrag < MaxFrags
  /\ nfrag' = nfrag + 1
  /\ Put(BeginExceptionOutcome("other").events)
  /\ cpc' = IF BeginExceptionOutcome("other").escapes THEN "bcrashed" ELSE "bdone"
  /\ g' = [g EXCEPT !.cause = "no_choices"]
  /\ UNCHANGED <<transVars, pingVars, disconnected, pingsAtDisconnect, detached,
                 ncalls, turn, pass, localVars, chat>>

\* a chunk whose delta.content is None
BeginChunkNoContent ==
  /\ cpc = "bstream" /\ nfrag < MaxFrags
  /\ nfrag' = nfrag + 1
  /\ UNCHANGED <<chanVars, transVars, pingVars, disconnected, pingsAtDisconnect, detached,
                 cpc, ncalls, turn, pass, localVars, chat, g>>

\* a chunk with delta.content
BeginChunkContent ==
  /\ cpc = "bstream" /\ nfrag < MaxFrags
  /\ nfrag' = nfrag + 1
  /\ LET tok == Delta(Len(g.textbuf) + 1)
     IN  /\ response' = AddContent(response, tok)
         /\ Put(<<BeginYield(AddContent(response, tok), "in-progress")>>)
         /\ g' = [g EXCEPT !.textbuf = Append(@, tok)]
  /\ UNCHANGED <<transVars, pingVars, disconnected, pingsAtDisconnect, detached,
                 cpc, ncalls, turn, pass, func_call, func_arguments, chat>>

\* the stream is exhausted: save_chat_message is awaited
BeginStreamEnd ==
  /\ cpc = "bstream"
  /\ cpc' = "bsave"
  /\ UNCHANGED <<chanVars, transVars, pingVars, disconnected, pingsAtDisconnect, detached,
                 ncalls, turn, pass, nfrag, localVars, chat, g>>

\* save_chat_message returns the message id: the final yield and the store
\* of the assistant message; or it raises, with message_id unassigned
BeginSave(o) ==
  /\ cpc = "bsave"
  /\ IF o.ok
     THEN /\ Put(<<[BeginYield(response, "done") EXCEPT !.message_id = o.id]>>)
          /\ chat' = StoreChat(chat, Message("assistant", response.str, ""))
          /\ cpc' = "bdone"
          /\ g' = g
     ELSE /\ Put(BeginExceptionOutcome("other").events)
          /\ cpc' = IF BeginExceptionOutcome("other").escapes THEN "bcrashed" ELSE "bdone"
          /\ chat' = chat
          /\ g' = [g EXCEPT !.cause = "save_failed"]
  /\ UNCHANGED <<transVars, pingVars, disconnected, pingsAtDisconnect, detached,
                 ncalls, turn, pass, nfrag, localVars>>

\* One SSE connection of event "connect", from the state in which
\* event_generator has created the task of _enqueue_begin_messages.
InitBegin ==
  /\ queue = <<>> /\ emitted = <<>> /\ forwarded = <<>>
  /\ stop_event = FALSE
  /\ tpc = "wait"
  /\ ppc = "sleeping" /\ npings = 0
  /\ disconnected = FALSE /\ pingsAtDisconnect = -1
  /\ cpc = "bcreate"
  /\ ncalls = 0 /\ turn = 0 /\ pass = 0 /\ nfrag = 0
  /\ func_call = NoCall /\ func_arguments = <<>> /\ response = Str(<<>>)
  /\ chat = <<>>
  /\ detached = {}
  /\ g = TurnGhost

NextBegin ==
  \/ TransportForwards
  \/ TransportCloses
  \/ ClientDisconnects
  \/ PingWake
  \/ BeginCreateStream
  \/ \E exc \in ModelExceptions : BeginRaises(exc)
  \/ BeginChunkNoChoices
  \/ BeginChunkNoContent
  \/ BeginChunkContent
  \/ BeginStreamEnd
  \/ \E o \in SaveOutcomes : BeginSave(o)

SpecBegin == InitBegin /\ [][NextBegin]_vars

\* The chat task through two turns with what each run is fed on record.
InitTwoRuns ==
  /\ queue = <<>> /\ emitted = <<>> /\ forwarded = <<>>
  /\ stop_event = FALSE
  /\ tpc = "wait"
  /\ ppc = "sleeping" /\ npings = 0
  /\ disconnected = FALSE /\ pingsAtDisconnect = -1
  /\ cpc = "start"
  /\ ncalls = 0 /\ turn = 0 /\ pass = 0 /\ nfrag = 0
  /\ func_call = NoCall /\ func_arguments = <<>> /\ response = Str(<<>>)
  /\ chat = <<>>
  /\ detached = {}
  /\ g = [TurnGhost EXCEPT !.rec = TRUE]

\* A run after the first is fed the recorded stream and tool result of the
\* run before it.
Replays == turn >= 2 => IsPrefix(StreamAndTool(g.fed), StreamAndTool(g.fedPrev))

\* The chunk budget is per turn here and an argument text arrives in one
\* fragment.
NextTwoRuns ==
  \/ ClientDisconnects
  \/ ChatLoop
  \/ CreateStream
  \/ \E exc \in ModelExceptions : ModelRaises(exc) /\ Replays'
  \/ ChunkEmpty /\ Replays'
  \/ \E name \in ToolNames : ChunkToolStart(name) /\ Replays'
  \/ \E text \in ArgTexts : ChunkToolArguments(text) /\ Replays'
  \/ ChunkContent /\ Replays'
  \/ StreamEnd
  \/ \E o \in SaveOutcomes : SaveChatMessage(o)
  \/ \E o \in HandlerOutcomes(func_call.func_name) : ToolReturns(o) /\ Replays'
  \/ \E o \in HandlerOutcomes(func_call.func_name) : ToolRaises(o) /\ Replays'
  \/ \E d \in detached : DetachedRuns(d)

SpecTwoRuns == InitTwoRuns /\ [][NextTwoRuns]_vars


\* ================================================================== claims
IsOrch(e) == e.producer = "orch"
IsFinal(e) == e.kind = "event" /\ e.is_final

\* the Events llm_text_response has yielded in turn t, and the final ones
TurnEvents(t) == SelectSeq(emitted, LAMBDA e : IsOrch(e) /\ e.turn = t)
TurnFinals(t) == SelectSeq(emitted, LAMBDA e : IsOrch(e) /\ e.turn = t /\ IsFinal(e))
Last(q) == q[Len(q)]

\* llm_text_response of the current turn has returned
TurnOver == turn >= 1 /\ cpc \in {"sleep", "exited"}

\* the current turn has ended with exactly one final Event, yielded last
OneFinalLast ==
  /\ Len(TurnFinals(turn)) = 1
  /\ IsFinal(Last(TurnEvents(turn)))

\* the response buffer of the current pass as the stream determines it: the
\* first your_response the scan finds in the argument text, else the text
Aside == FindAll(func_arguments)
Buffer == IF Aside # <<>> THEN Str(Aside[1]) ELSE Str(g.textbuf)

\* ----------------------------------------------------------------------
\* C1 (as claimed): of the items event_generator forwards, exactly one is an
\* Event with is_final = true and it is the last item forwarded; and once a
\* turn is over and everything it put has been forwarded, a final Event has
\* been forwarded (the stream is not left open without one).
C1_FinalForwardedOnceAndLast ==
  /\ Len(SelectSeq(forwarded, IsFinal)) <= 1
  /\ \A i \in 1..Len(forwarded) : IsFinal(forwarded[i]) => i = Len(forwarded)
  /\ (TurnOver /\ cpc = "sleep" /\ queue = <<>> /\ tpc \in {"wait", "last", "closed"})
        => SelectSeq(forwarded, IsFinal) # <<>>

\* ----------------------------------------------------------------------
\* C2 (as claimed): over one connection the Events the orchestrator puts on
\* the queue contain at most one final Event, and none follows it.
C2_OneOrchestratorFinalPerConnection ==
  LET orch == SelectSeq(emitted, IsOrch)
  IN  /\ Len(SelectSeq(orch, IsFinal)) <= 1
      /\ \A i \in 1..Len(orch) : IsFinal(orch[i]) => i = Len(orch)

\* ----------------------------------------------------------------------
\* C3: in one generation pass at most one tool is dispatched, and it is the
\* tool named by the first tool-call-start fragment of the stream; the open
\* call is never replaced by a later start.
C3_FirstToolCallWins ==
  /\ Len(g.dispatched) <= 1
  /\ g.dispatched # <<>> => (g.starts # <<>> /\ g.dispatched[1] = g.starts[1])
  /\ func_call.open => (g.starts # <<>> /\ func_call.func_name = g.starts[1])
  /\ cpc = "tool" => func_call.func_name = g.starts[1]

C3_Witness ==
  /\ Len(g.starts) = 2 /\ g.starts[1] # g.starts[2]
  /\ g.dispatched = <<g.starts[1]>>
  /\ g.starts[2] \in DOMAIN functions

\* ----------------------------------------------------------------------
\* C4: when the pass ends with a call of a fire-and-forget tool (registry
\* entry not is_sync, or async_tools) whose arguments parse, the handler task
\* is started and, in the same step, the turn's final Event is yielded with
\* the aside as answer; the turn is over whether or not the task has run, and
\* the task's completion changes no Event of the orchestrator.
FireAndForgetCase ==
  /\ func_call.open /\ g.dispatched # <<>>
  /\ func_call.func_name \in DOMAIN functions
  /\ async_tools \/ ~functions[func_call.func_name].is_sync
  /\ JsonValid(func_arguments)

C4_FinalAtDispatch ==
  FireAndForgetCase =>
    /\ TurnOver
    /\ OneFinalLast
    /\ Last(TurnEvents(turn)).answer = Buffer
    /\ \E d \in detached : d.turn = turn /\ d.func_name = func_call.func_name

C4_HandlerLeavesEventsAlone ==
  (\E d \in detached : d.st = "running" /\ d \notin detached')
     => SelectSeq(emitted', IsOrch) = SelectSeq(emitted, IsOrch)

C4_FireAndForget == [] C4_FinalAtDispatch /\ [][C4_HandlerLeavesEventsAlone]_vars

C4_Witness ==
  /\ FireAndForgetCase /\ Aside # <<>>
  /\ Last(TurnEvents(turn)).answer = Str(Aside[1])
  /\ \E d \in detached : d.turn = turn /\ d.st = "running"

\* ----------------------------------------------------------------------
\* C5 (as claimed): after a synchronous handler returned (content, False) the
\* turn ends with exactly one final Event whose answer is the content, or the
\* aside when the content is empty.
SyncNoCallbackCase ==
  /\ TurnOver /\ g.toolRet.set /\ ~g.toolRet.callback /\ g.cause = "none"

ContinuationCase == turn >= 1 /\ g.toolRet.set /\ g.toolRet.callback

C7_ToolErrorEndsTurn ==
  g.cause = "tool_raised" =>
    /\ TurnOver
    /\ OneFinalLast
    /\ Last(TurnEvents(turn)).answer = Str(ERROR_TEXT)
    /\ g.calls = g.callsAtRaise

C7_Witness ==
  /\ g.cause = "tool_raised" /\ cpc = "sleep"
  /\ Last(TurnEvents(turn)).answer = Str(ERROR_TEXT)

\* ----------------------------------------------------------------------
\* C8 (as claimed): every exception of the model call or its stream other
\* than a content-filter rejection, a bad request with another code included,
\* ends the turn with exactly one final Event carrying the generic error text.
C8_OtherExceptionsGiveGenericError ==
  g.cause \in {"bad_request", "other"} =>
    /\ TurnOver
    /\ OneFinalLast
    /\ Last(TurnEvents(turn)).answer = Str(ERROR_TEXT)

\* ----------------------------------------------------------------------
\* C9 (as claimed): a content-filter rejection ends the turn with exactly one
\* final Event whose answer is the one fixed apology text.
ContentFilterCase == g.cause \in {"filter_msg", "filter_nomsg"}

UnknownToolCase ==
  /\ TurnOver /\ func_call.open
  /\ func_call.func_name \notin DOMAIN functions
  /\ g.cause \notin ModelExceptions

C10_UnknownToolIsPlainAnswer ==
  UnknownToolCase =>
    /\ g.dispatched = <<>>
    /\ OneFinalLast
    /\ Last(TurnEvents(turn)).answer = Buffer
    /\ Last(TurnEvents(turn)).src # "error"

\* ----------------------------------------------------------------------
\* C11 (as claimed): when the stream ends with a call of a registered tool
\* whose accumulated argument text does not parse as JSON, no handler is
\* invoked and the turn ends with one final Event whose answer is the text
\* buffer; no generic error Event is yielded.
MalformedArgumentsCase ==
  /\ TurnOver /\ func_call.open
  /\ func_call.func_name \in DOMAIN functions
  /\ ~JsonValid(func_arguments)
  /\ g.cause \notin ModelExceptions

C11_MalformedArgumentsIsPlainAnswer ==
  MalformedArgumentsCase =>
    /\ g.dispatched = <<>>
    /\ OneFinalLast
    /\ Last(TurnEvents(turn)).answer = Buffer
    /\ Last(TurnEvents(turn)).src # "error"

\* ----------------------------------------------------------------------
\* C12 (as claimed): when LlmClient(...) or initialize() has failed in
\* event_generator (it has left its set-up without creating the chat task),
\* no exception escapes the generator, exactly one final Event has been put
\* on the queue, and once the generator is through, that Event has been
\* forwarded and the stop signal is set.
InitFailedCase == cpc = "none" /\ tpc \notin {"init", "cancelled"}

C12_InitFailureGivesOneErrorEvent ==
  InitFailedCase =>
    /\ tpc # "crashed"
    /\ Len(SelectSeq(emitted, IsFinal)) = 1
    /\ tpc = "closed" => (stop_event /\ SelectSeq(forwarded, IsFinal) # <<>>)

\* ----------------------------------------------------------------------
\* C13 (as claimed): after the client went away during a turn, before a final
\* Event was forwarded, send_ping_pong_messages stops within one interval: of
\* its wake-ups after the disconnect at most the first, which can come less
\* than an interval later, still puts a heartbeat.
MidStreamDisconnectCase ==
  /\ tpc = "cancelled" /\ turn >= 1
  /\ SelectSeq(forwarded, IsFinal) = <<>>

HeartbeatsAfterDisconnect ==
  npings - pingsAtDisconnect

C13_KeepaliveStopsAfterDisconnect ==
  MidStreamDisconnectCase => HeartbeatsAfterDisconnect <= 1

\* ----------------------------------------------------------------------
\* C14: every step that puts a heartbeat on the queue is taken in a state in
\* which stop_event is not set and leaves it unset, and stop_event, once set,
\* stays set: each heartbeat put precedes the set.
Heartbeats(q) == Len(SelectSeq(q, IsPingPong))

C14_HeartbeatPutStep ==
  /\ Heartbeats(emitted') > Heartbeats(emitted) => (~stop_event /\ ~stop_event')
  /\ stop_event => stop_event'

C14_NoHeartbeatAfterStop == [][C14_HeartbeatPutStep]_vars

C14_Witness ==
  /\ stop_event /\ ppc = "done"
  /\ Heartbeats(emitted) >= 1
  /\ Heartbeats(forwarded) >= 1

\* ----------------------------------------------------------------------
\* C15: the items event_generator has forwarded are, position by position,
\* the first items put on the queue, whichever producer put them, and the
\* items still queued are the rest in put order: nothing is reordered,
\* dropped in between or forwarded twice.
C15_ForwardedInPutOrder ==
  /\ forwarded \o queue = emitted
  /\ \A i \in 1..Len(forwarded) : forwarded[i] = emitted[i]

C15_Witness ==
  \E i, j, k \in 1..Len(forwarded) :
    /\ i < j /\ j < k
    /\ IsOrch(forwarded[i]) /\ IsPingPong(forwarded[j]) /\ IsOrch(forwarded[k])
    /\ forwarded[i] # forwarded[k]

\* ----------------------------------------------------------------------
\* C16 (as claimed): when the stream of a pass has ended without a tool call,
\* the turn ends with one final Event whose answer is the text, whatever the
\* persistence write does: its failure neither changes nor suppresses the
\* answer.  (The text is the response buffer: the deltas, unless argument
\* fragments without a tool-call-start have made the scan find an aside.)
PlainTextCase ==
  /\ TurnOver /\ ~func_call.open
  /\ g.cause \notin ModelExceptions

PassDeltaEvents ==
  SelectSeq(emitted, LAMBDA e : IsOrch(e) /\ e.turn = turn /\ e.pass = pass
                                /\ e.src = "delta")

C17_CumulativeText ==
  /\ Len(PassDeltaEvents) = Len(g.textbuf)
  /\ \A k \in 1..Len(PassDeltaEvents) :
       /\ PassDeltaEvents[k].status = "in-progress"
       /\ PassDeltaEvents[k].answer = Str(SubSeq(g.textbuf, 1, k))
  /\ (TurnOver /\ g.starts = <<>> /\ func_arguments = <<>> /\ g.cause = "none")
       => /\ OneFinalLast
          /\ Last(TurnEvents(turn)).answer = Str(g.textbuf)

\* ----------------------------------------------------------------------
\* C18 (as claimed): a turn whose streams all came to an end and whose awaited
\* handlers all returned is over with exactly one final Event, yielded last;
\* and generation has been re-entered at most once per executed tool call
\* (the pass number exceeds the handlers run in the turn by at most one).
HandlersReturnedCase == TurnOver /\ g.cause # "tool_raised"

C18_TerminatesWithOneFinal ==
  /\ HandlersReturnedCase => OneFinalLast
  /\ turn >= 1 => pass <= g.calls + 1

\* ----------------------------------------------------------------------
\* C19: however the argument text of a tool call is cut into fragments, after
\* each fragment func_arguments is the text received so far and the aside is
\* the one a single fragment carrying that whole text gives; the tool
\* dispatched is the one the start fragment named, and the arguments parsed
\* at the dispatch are those of the whole text.
SingleFragment(text) == OnArguments(Str(g.textbuf), <<>>, text)

C19_SameAsSingleFragment ==
  func_arguments # <<>> =>
    /\ SingleFragment(func_arguments).fargs = func_arguments
    /\ FirstOrStr(response) = FirstOrStr(SingleFragment(func_arguments).resp)
    /\ g.dispatched # <<>> =>
         /\ g.dispatched = <<g.starts[1]>>
         /\ JsonValid(func_arguments)

C19_FragmentAppended ==
  (pass' = pass /\ turn' = turn /\ func_arguments' # func_arguments)
     => /\ IsPrefix(func_arguments, func_arguments')
        /\ \E text \in ArgTexts : IsPrefix(func_arguments', text)

C19_ChunkBoundaryIndependence ==
  [] C19_SameAsSingleFragment /\ [][C19_FragmentAppended]_vars

C19_Witness ==
  /\ g.argfrags >= 2 /\ g.dispatched # <<>>
  /\ Aside # <<>> /\ response = Str(Aside[1])
  /\ ParsedArguments(func_arguments) # {}

\* ----------------------------------------------------------------------
\* C20: two runs of llm_text_response (two turns of one chat task) that were
\* fed the same chunks, the same exception of the model call and the same
\* handler outcome put the same Events, field for field.  As stated (the
\* save of the answer is not among the things held equal) this fails: the
\* final Event of the pure-text branch carries the message id the save
\* returned, and the error text when the save raised.
AllTurnEvents(t) == SelectSeq(emitted, LAMBDA e : e.kind = "event" /\ e.turn = t)
Unlabelled(q) == [i \in 1..Len(q) |-> [q[i] EXCEPT !.turn = 0]]
WithoutMessageId(q) == [i \in 1..Len(q) |-> [q[i] EXCEPT !.message_id = "None"]]
TwoRunsOver == g.rec /\ turn = 2 /\ cpc \in {"sleep", "exited"}

C21_StopAfterFinalForwarded ==
  stop_event =>
    /\ tpc = "closed"
    /\ forwarded # <<>> /\ IsFinal(Last(forwarded))
    /\ SelectSeq(forwarded, IsFinal) = <<Last(forwarded)>>

C21_EndOfTurnStep ==
  /\ (stop_event' /\ ~stop_event) =>
        /\ tpc = "last" /\ tpc' = "closed"
        /\ forwarded' = forwarded /\ IsFinal(Last(forwarded))
  /\ stop_event => (stop_event' /\ forwarded' = forwarded)
  /\ (stop_event /\ ppc' # ppc) => (ppc' = "done" /\ emitted' = emitted)
  /\ ppc = "done" => ppc' = "done"

C21_EndOfTurnOrder == [] C21_StopAfterFinalForwarded /\ [][C21_EndOfTurnStep]_vars

C21_Witness ==
  /\ stop_event /\ ppc = "done" /\ tpc = "closed"
  /\ Heartbeats(forwarded) >= 1
  /\ IsFinal(Last(forwarded))

\* ----------------------------------------------------------------------
\* C22: when the client went away while a turn was in flight, the turn still
\* ends with its Events put on the queue, the last of them its one is_final
\* Event.
CutTurnOverCase == g.cut /\ cpc \in {"sleep", "exited"}

C22_CutTurnStillPutsFinal ==
  CutTurnOverCase =>
    /\ Len(TurnFinals(turn)) = 1
    /\ IsFinal(Last(TurnEvents(turn)))

\* ----------------------------------------------------------------------
\* C23: the round of _enqueue_chat_messages that finds the client
\* disconnected ends the loop without a call of llm_text_response and
\* without a put; after it the chat task does nothing more: no pass starts,
\* the history stays, and no Event is put.
Events(q) == SelectSeq(q, LAMBDA e : e.kind = "event")

C23_LoopExitStep ==
  /\ (disconnected /\ cpc \in {"start", "sleep"} /\ cpc' # cpc) =>
        /\ cpc' = "exited"
        /\ <<ncalls, turn, pass, chat>>' = <<ncalls, turn, pass, chat>>
        /\ emitted' = emitted
  /\ cpc = "exited" =>
        /\ cpc' = "exited"
        /\ <<ncalls, turn, pass, chat>>' = <<ncalls, turn, pass, chat>>
        /\ Events(emitted') = Events(emitted)

C23_NothingAfterDisconnectObserved == [][C23_LoopExitStep]_vars

C23_Witness ==
  /\ cpc = "exited" /\ turn >= 1
  /\ tpc = "cancelled"
  /\ npings > pingsAtDisconnect

\* ----------------------------------------------------------------------
\* C24: the prompt of a re-entered pass ends with the function-role message
\* that carries the content the handler returned, and before it come, in
\* the order they were stored, the messages of the turn's earlier passes,
\* among them the user query.
ReenteredPromptCase == pass >= 2 /\ cpc \in {"stream", "save", "tool"}

SecondStartCase == Len(g.starts) >= 2

InProgress(q) == SelectSeq(q, LAMBDA e : e.kind = "event" /\ ~e.is_final)

C25_LoopLeft == SecondStartCase => (Len(g.starts) = 2 /\ cpc # "stream")

C25_NothingConsumedStep ==
  (SecondStartCase /\ pass' = pass /\ turn' = turn) =>
     /\ nfrag' = nfrag
     /\ func_arguments' = func_arguments
     /\ response' = response
     /\ g'.textbuf = g.textbuf /\ g'.starts = g.starts
     /\ InProgress(emitted') = InProgress(emitted)

C25_SecondStartEndsStream == [] C25_LoopLeft /\ [][C25_NothingConsumedStep]_vars

C25_Witness ==
  /\ SecondStartCase /\ cpc = "sleep"
  /\ g.textbuf # <<>>
  /\ Len(TurnFinals(turn)) = 1

\* ----------------------------------------------------------------------
\* C26: every Event on the queue, and every Event a producer can build (the
\* data Event of a handler for either value of callback, the error Event of
\* event_generator), has is_final set exactly when its status is "done".
FinalIffDone(e) == e.is_final <=> (e.status = "done")

C26_FinalIffDone ==
  /\ \A i \in 1..Len(emitted) : emitted[i].kind = "event" => FinalIffDone(emitted[i])
  /\ \A callback \in BOOLEAN : FinalIffDone(ReturnData(callback))
  /\ FinalIffDone(ErrorResponse)
  /\ \A status \in {"done", "in-progress"} :
        FinalIffDone(CreateYieldResponse(response, status))

C26_Witness ==
  /\ \E i \in 1..Len(emitted) : emitted[i].kind = "event" /\ emitted[i].status = "in-progress"
  /\ \E i \in 1..Len(emitted) : emitted[i].kind = "event" /\ emitted[i].status = "done"
                                  /\ emitted[i].src = "sync"
  /\ \E i \in 1..Len(emitted) : emitted[i].kind = "event" /\ emitted[i].src = "error"

\* ----------------------------------------------------------------------
\* C27: when llm_text_begin_message is over, on whatever path, it has put
\* exactly one is_final Event, and that Event is the last it put.
BeginOverCase == cpc \in {"bdone", "bcrashed"}

C27_BeginEndsWithOneFinal ==
  BeginOverCase =>
    /\ Len(SelectSeq(emitted, IsFinal)) = 1
    /\ IsFinal(Last(Events(emitted)))

\* ----------------------------------------------------------------------
\* C28: once the first turn of a chat connection has put its is_final Event,
\* llm_text_response is not called for the prompt again: the turn count
\* stays at one, no further pass starts, and the history holds the user
\* query once.
FirstTurnFinalPutCase == TurnFinals(1) # <<>>

UserQueries == SelectSeq(chat, LAMBDA m : m = Message("user", USER_QUERY, ""))

C28_PromptProcessedOnce ==
  FirstTurnFinalPutCase =>
    /\ turn = 1
    /\ Len(UserQueries) = 1

\* ----------------------------------------------------------------------
\* C29: the first is_final item the transport forwards, and the first
\* is_final Event of every turn on the queue, was not put by a tool handler.
FirstFinal(q) == SelectSeq(q, IsFinal)[1]

C30_SyncToolAlwaysContinues ==
  /\ g.toolRet.set => g.toolRet.callback
  /\ \A i \in 1..Len(emitted) : emitted[i].src # "sync"

\* C30 (amended): a synchronous handler returns the callback value it was
\* called with: true unless the parsed arguments carry "callback": false.
\* With true the step re-enters generation and puts no final Event; with
\* false it puts the final Event and the turn ends in the same pass.
HandlerReturnsStep ==
  cpc = "tool" /\ cpc' # "tool" /\ g'.toolRet.set /\ g'.cause # "tool_raised"

C30_CallbackAsCalled ==
  (g.toolRet.set /\ ~g.toolRet.callback) => "C" \in ParsedArguments(func_arguments)

C30_HandlerReturnStep ==
  HandlerReturnsStep =>
    /\ g'.toolRet.callback = ("C" \notin ParsedArguments(func_arguments))
    /\ g'.toolRet.callback =>
          /\ cpc' = "create" /\ pass' = pass + 1
          /\ SelectSeq(emitted', IsFinal) = SelectSeq(emitted, IsFinal)
    /\ ~g'.toolRet.callback =>
          /\ cpc' = "sleep" /\ pass' = pass
          /\ Last(emitted').src = "sync" /\ IsFinal(Last(emitted'))

C30_ContinuesUnlessCallbackEntry ==
  [] C30_CallbackAsCalled /\ [][C30_HandlerReturnStep]_vars

C30_Witness ==
  /\ g.toolRet.set /\ ~g.toolRet.callback
  /\ pass = 1 /\ cpc = "sleep"
  /\ Last(emitted).src = "sync"
  /\ g.dispatched = <<"Role_To_Skill">>

====
